---- MODULE Spec2Model ----
(***************************************************************************)
(* Model of the live-stream playback supervisor: Playlist (playlist.py),   *)
(* Streamer (streamer.py) and the control handlers of the dashboard        *)
(* (web.py).  Threads: the supervisor loop threads created by              *)
(* run_in_thread, the background reload threads created by Playlist.next,  *)
(* and the event-loop thread serving the dashboard requests.  Critical     *)
(* sections of a lock are single steps; everything else is interleaved.    *)
(* Positions are in hundredths of a second, time is in seconds.            *)
(***************************************************************************)
EXTENDS Integers, Sequences, FiniteSets, TLC

\* ---------------------------------------------------------------- bounds
MaxThreads == 2       \* supervisor threads that may exist at once
MaxBg      == 1       \* background reload threads that may exist at once
MaxPos     == 14      \* largest elapsed position followed (1/100 s)
FailCap    == 1       \* cumulative failures followed when max_retries = 0
RetryCeil  == 11      \* the configured max_retries when it is not 0
MaxCalls   == 2       \* consume_resume_position calls followed after a restoration
MaxJump    == 3       \* largest index given to jump_to
PlayedCap  == 1       \* clean completions followed

\* ------------------------------------------------------ program constants
BaseDelay     == 5    \* resilience.retry_delay default
MaxDelay      == 60   \* resilience.max_retry_delay default
Cooldown      == 60   \* diagnosis cooldown, seconds
DiagEvery     == 5    \* periodic diagnosis every 5 cumulative failures
MaxAttempts   == 120  \* polls of the identity verification in one recovery run

\* ------------------------------------------------------------ the catalog
NoVideo == "none"
Paths   == {"p", "q", "d", "e"}

\* WebDAVSource.list_videos for each path of the source
Listing(p) ==
  CASE p = "p" -> <<"a", "b">>
    [] p = "q" -> <<"b", "c", "a">>
    [] p = "d" -> <<"a", "b", "a">>     \* the same file name from two sources
    [] OTHER   -> << >>

\* one telemetry sample of the encoder: time=00:00:00.14
RelTime == 14

NoFile == [index |-> -1, video_name |-> "", position |-> 0]

\* progress.json opened for writing and not written yet: it exists and is empty,
\* json.loads of it raises and _restore_progress restores nothing
TruncatedFile == [index |-> -2, video_name |-> "", position |-> 0]

Threads == 1..MaxThreads
ProcIds == 1..MaxThreads
BgIds   == (MaxThreads + 1)..(MaxThreads + MaxBg)
WebId   == 0
Runners == Threads \cup BgIds \cup {WebId}

VARIABLES
  \* ---- Playlist
  path,             \* WebDAVSource.path
  videos,           \* Playlist._videos (item names)
  index,            \* Playlist._index
  resume_position,  \* Playlist._resume_position
  progress_file,    \* progress.json: NoFile or the record written last
  rl,               \* the executions of Playlist.reload, one per runner
  mode,             \* Playlist.mode: "sequential" or "random"
  pl_reader,        \* a reader inside "with self._lock" and what it saw on entry
  stream_cfg,       \* Streamer.stream_cfg: rtmp_url and stream_key in memory
  config_file,      \* the stream section of config.yaml
  rc,               \* the run of _attempt_auto_restart
  lk,               \* the two locks (Streamer._lock, Playlist._lock) and where each thread is in its lock scopes
  \* ---- Streamer
  running,          \* Streamer._running
  skip_requested,   \* Streamer._skip_requested
  process,          \* Streamer._process: 0 (None) or a process id
  proc,             \* the encode processes: "none", "running", "exit0", "exit1",
                    \* "term_skip", "term_play", "term_stop" (terminated by that request)
  total_failures,   \* Streamer._total_failures
  videos_played,    \* Streamer.videos_played
  current_video,    \* Streamer.current_video
  current_time,     \* Streamer.current_time
  seek_offset,      \* Streamer._seek_offset
  since_diag,       \* now - Streamer._last_diagnosis_time, saturated at Cooldown
  max_retries,      \* resilience.max_retries
  cookie,           \* bilibili.cookie is configured
  diag,             \* what the last call of _trigger_diagnosis did
  loops,            \* the supervisor threads (Streamer.start)
  web,              \* the dashboard request being served
  \* ---- history
  hist

rcvars == <<stream_cfg, config_file, rc>>
plvars == <<path, videos, index, resume_position, progress_file, rl, mode, pl_reader, lk, rcvars>>
stvars == <<running, skip_requested, process, proc, total_failures, videos_played,
            current_video, current_time, seek_offset, since_diag, max_retries,
            cookie, diag>>
vars == <<path, videos, index, resume_position, progress_file, rl, mode, pl_reader, lk, rcvars,
          running, skip_requested, process, proc, total_failures, videos_played,
          current_video, current_time, seek_offset, since_diag, max_retries,
          cookie, diag, loops, web, hist>>

Min(a, b) == IF a <= b THEN a ELSE b

RECURSIVE Pow2(_)
Pow2(n) == IF n <= 0 THEN 1 ELSE 2 * Pow2(n - 1)

\* the positions p/100 below 1 s whose double lies above the decimal tie x.x5
TiesUp == {5, 45, 55, 65, 75}

\* round(position, 1) on a position of p/100 s: to the nearest 1/10 s; at x.x5 the
\* double nearest to p/100 decides
Round1(p) ==
  IF p % 10 = 5 /\ p \notin TiesUp THEN (p \div 10) * 10 ELSE ((p + 5) \div 10) * 10

\* ================================================================ Playlist

SaveRecordUnrounded(vs, i, position) ==
  [index |-> i, video_name |-> IF i > 0 THEN vs[i] ELSE "", position |-> position]

SaveRecordNameless(vs, i, position) ==
  [index |-> i, video_name |-> "", position |-> Round1(position)]

\* Playlist._save_progress: the record written to progress.json
SaveRecord(vs, i, position) ==
  [index |-> i,
   video_name |-> IF i > 0 THEN vs[i] ELSE "",
   position |-> Round1(position)]

\* Playlist._save_progress (called with the lock held)
SavedFile(vs, i, position, old) ==
  IF vs = << >> THEN old
  ELSE IF i > Len(vs) THEN old      \* IndexError caught by the except clause
  ELSE SaveRecord(vs, i, position)

\* first position of name in vs, 0 when absent
RECURSIVE FirstAt(_, _, _)
FirstAt(vs, name, i) ==
  IF i > Len(vs) THEN 0
  ELSE IF vs[i] = name THEN i
  ELSE FirstAt(vs, name, i + 1)

RestoredIndexByIndexFirst(vs, data, oldIndex) ==
  LET m == FirstAt(vs, data.video_name, 1) IN
  IF 0 <= data.index /\ data.index < Len(vs) THEN data.index
  ELSE IF m > 0 THEN m - 1
  ELSE oldIndex

\* Playlist._restore_progress, the part under the lock: the restored
\* (_index, _resume_position) for the record data read from progress.json
RestoredIndex(vs, data, oldIndex) ==
  LET m == FirstAt(vs, data.video_name, 1) IN
  IF m > 0 THEN m - 1
  ELSE IF 0 <= data.index /\ data.index < Len(vs) THEN data.index
  ELSE oldIndex

RestoredResume(vs, data, oldResume) ==
  LET m == FirstAt(vs, data.video_name, 1) IN
  IF m > 0 THEN data.position
  ELSE IF 0 <= data.index /\ data.index < Len(vs) THEN data.position
  ELSE oldResume

ClearedNot(pos) == pos

\* Playlist.consume_resume_position: self._resume_position = 0.0
Cleared(pos) == 0

\* _restore_progress sets the cursor and the resume offset (name match or index fallback)
RestoreApplies(vs, data) ==
  FirstAt(vs, data.video_name, 1) > 0 \/ (0 <= data.index /\ data.index < Len(vs))

\* ------------------------------------------------------------ lock scopes
\* The threads of the process: the supervisor thread (run_in_thread), the reload
\* thread that next() starts at the end of a round, a request thread of the
\* dashboard
LockThreads == {"loop", "bg", "web1"}

\* The steps of a thread that matter to the locks: entering and leaving
\* "with self._lock" of the Streamer ("S") or of the Playlist ("P"), and a call
\* that leaves the process' memory (disk, network, subprocess, sleep)
Acq(l) == [k |-> "acq", x |-> l]
Rel(l) == [k |-> "rel", x |-> l]
Ext(e) == [k |-> "ext", x |-> e]

\* with self._lock: around reads and writes of Streamer fields only
FieldsS == <<Acq("S"), Rel("S")>>

\* with self._lock: around reads and writes of Playlist fields only
FieldsP == <<Acq("P"), Rel("P")>>

\* Playlist._save_progress: PROGRESS_FILE.write_text(...); its callers hold the lock
\* (write_text opens the file with mode "w", which truncates it, then writes)
SaveProgressOp == <<Ext("disk_open"), Ext("disk_write")>>

\* Playlist.reload and _restore_progress: the sources are listed, the list is
\* swapped under the lock, progress.json is read, the cursor is set under the lock
ReloadOp == <<Ext("list")>> \o FieldsP \o <<Ext("disk_read")>> \o FieldsP

\* Playlist.next on a loaded list
NextOp == <<Acq("P")>> \o SaveProgressOp \o <<Rel("P")>>

\* Playlist.next on an empty list that the reload fills
NextEmptyOp == FieldsP \o ReloadOp \o <<Acq("P")>> \o SaveProgressOp \o <<Rel("P")>>

\* Playlist.next on an empty list that stays empty: returns None
NextNoneOp == FieldsP \o <<Ext("list")>> \o FieldsP \o FieldsP

\* Playlist.jump_to with an index in range
JumpToOp == <<Acq("P")>> \o SaveProgressOp \o <<Rel("P")>>

SaveWithPositionOpReadsStreamer ==
  <<Acq("P")>> \o FieldsS \o SaveProgressOp \o <<Rel("P")>>

\* Playlist.save_progress_with_position
SaveWithPositionOp == <<Acq("P")>> \o SaveProgressOp \o <<Rel("P")>>

\* Playlist.total
TotalOp == FieldsP

\* Streamer.status: psutil is read, then the snapshot is built under the Streamer's
\* lock, playlist.total included
StatusOp == <<Ext("system")>> \o <<Acq("S")>> \o TotalOp \o <<Rel("S")>>

\* Streamer.play
PlayOp == JumpToOp \o <<Ext("terminate")>>

\* Streamer.stop and _cleanup
StopOp == <<Ext("terminate"), Ext("wait_exit")>>

\* Streamer.start before the loop: playlist.total for the log and for the e-mail
StartOp == TotalOp \o TotalOp

\* the head of the inner loop: the fields of the item, _seek_offset, Popen
PrepareOp == FieldsS \o FieldsS \o <<Ext("popen")>>

\* a line of the encoder's output that holds the lock while it is read
LineProgLocked ==
  <<Acq("S"), Ext("read_output"), Rel("S")>> \o FieldsS \o SaveWithPositionOp
     \o FieldsS \o FieldsS

\* _read_output: one line of the encoder's output (duration, progress and the
\* checkpoint every 10 s, bitrate, speed)
LineProg ==
  <<Ext("read_output")>> \o FieldsS \o FieldsS \o SaveWithPositionOp
     \o FieldsS \o FieldsS

\* a failed exit: current_time is read under the lock, then the checkpoint is saved
FailedOp == FieldsS \o SaveWithPositionOp

\* _attempt_auto_restart and _apply_new_stream_config
RecoverOp == <<Ext("recover")>> \o FieldsS \o <<Ext("config_write")>>

\* except Exception: current_time read under the lock, checkpoint, sleep
ExceptedOp == FieldsS \o SaveWithPositionOp \o <<Ext("sleep")>>

\* after the loop: current_video = "" under the lock, _cleanup
FinishOp == FieldsS \o <<Ext("terminate"), Ext("wait_exit")>>

Prog(op) ==
  CASE op = "start"      -> StartOp
    [] op = "next"       -> NextOp
    [] op = "next_empty" -> NextEmptyOp
    [] op = "next_none"  -> NextNoneOp
    [] op = "consume"    -> FieldsP                \* consume_resume_position
    [] op = "prepare"    -> PrepareOp
    [] op = "line"       -> LineProg
    [] op = "wait"       -> <<Ext("wait_exit")>>   \* self._process.wait()
    [] op = "played"     -> FieldsS                \* videos_played += 1
    [] op = "failed"     -> FailedOp
    [] op = "diagnose"   -> <<Ext("diagnose")>>    \* _trigger_diagnosis
    [] op = "recover"    -> RecoverOp
    [] op = "sleep"      -> <<Ext("sleep")>>       \* time.sleep(delay)
    [] op = "excepted"   -> ExceptedOp
    [] op = "finish"     -> FinishOp
    [] op = "reload"     -> ReloadOp
    [] op = "status"     -> StatusOp
    [] op = "videos"     -> FieldsP                \* Playlist.videos
    [] op = "skip"       -> <<Ext("terminate")>>   \* Streamer.skip
    [] op = "play"       -> PlayOp
    [] op = "stop"       -> StopOp
    [] op = "switch"     -> ReloadOp \o <<Ext("terminate")>> \o TotalOp  \* switch_dir
    [] OTHER             -> << >>

\* the top of "while self._running": the next item, or the end of the loop
LoopTop == {"next", "next_empty", "next_none", "finish"}

\* what the supervisor thread does after op (Streamer.start)
LoopFollow(op) ==
  CASE op = "init"       -> {"start"}
    [] op = "start"      -> LoopTop
    [] op = "next"       -> {"consume"}
    [] op = "next_empty" -> {"consume"}
    [] op = "next_none"  -> {"sleep"}
    [] op = "consume"    -> {"prepare", "finish"}
    [] op = "prepare"    -> {"line", "wait", "excepted"}
    [] op = "line"       -> {"line", "wait"}
    [] op = "wait"       -> {"played", "failed"} \cup LoopTop
    [] op = "played"     -> LoopTop
    [] op = "failed"     -> {"diagnose", "sleep"}
    [] op = "diagnose"   -> {"recover", "sleep"} \cup LoopTop
    [] op = "recover"    -> {"sleep"} \cup LoopTop
    [] op = "sleep"      -> {"prepare"} \cup LoopTop
    [] op = "excepted"   -> {"prepare"} \cup LoopTop
    [] OTHER             -> {}

\* what a thread may do next: the loop follows start(), the reload thread runs
\* reload, a request thread serves any request of the dashboard
Follow(a, op) ==
  IF a = "loop" THEN LoopFollow(op)
  ELSE IF a = "bg" THEN {"reload"}
  ELSE {"status", "videos", "skip", "play", "stop", "switch"}

\* both locks free; the supervisor thread created, the others idle
NoLocks ==
  [S |-> "", P |-> "",
   th |-> [a \in LockThreads |-> [op |-> IF a = "loop" THEN "init" ELSE "idle", i |-> 1]]]

\* ------------------------------------------------------------ initial state
NoSnap == [held |-> FALSE, videos |-> << >>, index |-> 0]

\* Playlist._lock is free
PlFree == ~pl_reader.held

IdleReload == [pc |-> "idle", vids |-> << >>, data |-> NoFile]

NoLoop == [pc |-> "none", video |-> NoVideo, video_retry |-> 0, resume_pos |-> 0,
           rp |-> 0, sleeping |-> 0, attempt |-> 0,
           cmd |-> [rtmp_url |-> "", stream_key |-> ""]]

\* no run of _attempt_auto_restart yet
NoRecovery == [pc |-> "idle", attempts |-> 0, posts |-> 0, polls |-> 0,
               result |-> "none", why |-> "",
               resp |-> [code |-> "", addr |-> "", key |-> ""]]

IdleWeb == [pc |-> "idle", op |-> "none", item |-> NoVideo]

NoDiag == [reason |-> "none", ran |-> FALSE, rtmp_ok |-> TRUE, key_ok |-> TRUE,
           live_ok |-> TRUE, other_ok |-> TRUE, recovery |-> "none", stop |-> FALSE]

NoHist == [round |-> "none", stopped |-> "no", want |-> NoVideo, got |-> NoVideo,
           saved_pos |-> 0, fresh |-> FALSE, restored |-> 0, rets |-> << >>,
           ck_name |-> "", seen |-> "none", jump |-> [i |-> 0, ret |-> "none"],
           skip_idle |-> FALSE]

\* Streamer.__init__ and main(): nothing is running, run_in_thread has created the
\* first supervisor thread
InitStreamer ==
  /\ rl = [r \in Runners |-> IdleReload]
  /\ pl_reader = NoSnap
  /\ lk = NoLocks
  /\ running = FALSE
  /\ skip_requested = FALSE
  /\ process = 0
  /\ proc = [p \in ProcIds |-> "none"]
  /\ total_failures = 0
  /\ videos_played = 0
  /\ current_video = ""
  /\ current_time = 0
  /\ seek_offset = 0
  /\ since_diag = Cooldown
  /\ diag = NoDiag
  /\ loops = [k \in Threads |-> IF k = 1 THEN [NoLoop EXCEPT !.pc = "init"] ELSE NoLoop]
  /\ web = IdleWeb
  /\ stream_cfg = [rtmp_url |-> "u1", stream_key |-> "k1"]
  /\ config_file = [rtmp_url |-> "u1", stream_key |-> "k1"]
  /\ rc = NoRecovery

\* Playlist.__init__ on a fresh installation (no progress.json), Streamer.__init__,
\* and main(): run_in_thread has created the first supervisor thread.
InitCommon ==
  /\ path = "p"
  /\ index = 0
  /\ resume_position = 0
  /\ progress_file = NoFile
  /\ hist = NoHist
  /\ InitStreamer

\* ========================================================= Playlist.reload

ReloadBusy(r) == rl[r].pc # "idle"

StartReloadNot(r) == rl

\* threading.Thread(target=self.reload, daemon=True).start()
StartReload(r) == [rl EXCEPT ![r] = [pc |-> "list", vids |-> << >>, data |-> NoFile]]

\* for source in self.sources: videos.extend(source.list_videos())
RL_List(r) ==
  /\ rl[r].pc = "list"
  /\ rl' = [rl EXCEPT ![r].pc = "swap", ![r].vids = Listing(path)]
  /\ UNCHANGED <<path, videos, index, resume_position, progress_file, mode, pl_reader, lk, rcvars>>

\* with self._lock: self._videos = videos; self._index = 0
\* if not videos: return
RL_Swap(r) ==
  /\ rl[r].pc = "swap"
  /\ PlFree
  /\ videos' = rl[r].vids
  /\ index' = 0
  /\ rl' = [rl EXCEPT ![r] = IF rl[r].vids = << >> THEN IdleReload
                              ELSE [@ EXCEPT !.pc = IF mode = "random" THEN "shuffle" ELSE "read",
                                             !.vids = << >>]]
  /\ UNCHANGED <<path, resume_position, progress_file, mode, pl_reader, lk, rcvars>>

\* the orders random.shuffle can leave a list in
Shuffles(vs) ==
  LET Perms == {f \in [1..Len(vs) -> 1..Len(vs)] :
                  \A a, b \in 1..Len(vs) : a # b => f[a] # f[b]}
  IN  {[i \in 1..Len(vs) |-> vs[f[i]]] : f \in Perms}

\* if self.mode == "random": random.shuffle(self._videos)   (the lock is not held)
RL_Shuffle(r) ==
  /\ rl[r].pc = "shuffle"
  /\ videos' \in Shuffles(videos)
  /\ rl' = [rl EXCEPT ![r].pc = "read"]
  /\ UNCHANGED <<path, index, resume_position, progress_file, mode, pl_reader, lk, rcvars>>

\* _restore_progress: if not PROGRESS_FILE.exists(): return; data = json.loads(...)
RL_Read(r) ==
  /\ rl[r].pc = "read"
  /\ rl' = [rl EXCEPT ![r] = IF progress_file = NoFile THEN IdleReload
                              ELSE [@ EXCEPT !.pc = "apply", !.data = progress_file]]
  /\ UNCHANGED <<path, videos, index, resume_position, progress_file, mode, pl_reader, lk, rcvars>>

\* _restore_progress: with self._lock: name match, else index fallback
RL_Apply(r) ==
  /\ rl[r].pc = "apply"
  /\ PlFree
  /\ index' = RestoredIndex(videos, rl[r].data, index)
  /\ resume_position' = RestoredResume(videos, rl[r].data, resume_position)
  /\ rl' = [rl EXCEPT ![r] = IdleReload]
  /\ UNCHANGED <<path, videos, progress_file, mode, pl_reader, lk, rcvars>>

ReloadStep(r) == RL_List(r) \/ RL_Swap(r) \/ RL_Read(r) \/ RL_Apply(r)

\* the reload of a playlist in random mode
ReloadStepRandom(r) == ReloadStep(r) \/ RL_Shuffle(r)

\* a step of Playlist.reload that returns
ReloadReturns(r) == rl[r].pc # "idle" /\ rl'[r].pc = "idle"

\* ============================================== Streamer.start (the loop)

Alive(p) == p # 0 /\ proc[p] = "running"

\* self._process and self._process.poll() is None
ProcessActiveAlways == TRUE

ProcessActive == Alive(process)

\* Popen.terminate(): SIGTERM to a process that has not been reaped
Terminated(ps, p, by) ==
  IF p # 0 /\ ps[p] = "running" THEN [ps EXCEPT ![p] = by] ELSE ps

\* Streamer._cleanup: terminate, wait up to 5 s, kill
CleanedUp(ps, p) == Terminated(ps, p, "term_stop")

\* a process object no thread refers to any more can be forgotten
FreeProcs == {p \in ProcIds : proc[p] # "running"
                 /\ \A j \in Threads : ~(loops[j].pc \in {"read", "wait"} /\ loops[j].rp = p)}

LowestOf(S) == CHOOSE x \in S : \A y \in S : x <= y

\* the cumulative-failure counter is followed up to this value
FailLimit == IF max_retries = 0 THEN FailCap ELSE max_retries + 1

\* delay = min(base_delay * (2 ** (video_retry - 1)), max_delay)
BackoffDelay(video_retry) == Min(BaseDelay * Pow2(video_retry - 1), MaxDelay)

\* if max_retries > 0 and self._total_failures >= max_retries
CeilingReached(failures) == max_retries > 0 /\ failures >= max_retries

\* if self._total_failures >= 5 and self._total_failures % 5 == 0
PeriodicDue(failures) == failures >= DiagEvery /\ failures % DiagEvery = 0

ClassifyAllFailed(skip, state) == IF skip THEN "skipped" ELSE "failed"

\* the classification of a process exit (streamer.py 130-142)
Classify(skip, state) ==
  IF skip THEN "skipped"
  ELSE IF state = "exit0" THEN "completed"
  ELSE "failed"

\* what the loop does after a failed exit (streamer.py 152-168)
AfterFailure(failures) ==
  IF CeilingReached(failures) THEN "maxdiag"
  ELSE IF PeriodicDue(failures) THEN "perdiag"
  ELSE "sleep"

\* def start(self): if self._running: return
L_StartCheck(k) ==
  /\ loops[k].pc = "init"
  /\ loops' = [loops EXCEPT ![k].pc = IF running THEN "none" ELSE "setrun"]
  /\ UNCHANGED <<plvars, stvars, web, hist>>

\* self._running = True; self._total_failures = 0
L_SetRun(k) ==
  /\ loops[k].pc = "setrun"
  /\ running' = TRUE
  /\ total_failures' = 0
  /\ loops' = [loops EXCEPT ![k].pc = "outer"]
  /\ UNCHANGED <<plvars, skip_requested, process, proc, videos_played, current_video,
                 current_time, seek_offset, since_diag, max_retries, cookie, diag,
                 web, hist>>

\* while self._running: (false) -> leave the loop
L_OuterExit(k) ==
  /\ loops[k].pc = "outer"
  /\ ~running
  /\ loops' = [loops EXCEPT ![k].pc = "finish"]
  /\ UNCHANGED <<plvars, stvars, web, hist>>

\* what a next() that returns item v records for the pending play request
NoteStarted(h, v) == IF h.want # NoVideo /\ h.got = NoVideo THEN [h EXCEPT !.got = v] ELSE h

\* the round marker after a next(): a jump_to ends the following of rounds
RoundAfter(h, wrapped) ==
  IF h.round = "jumped" THEN "jumped" ELSE IF wrapped THEN "wrapped" ELSE "none"

\* Playlist.next, first critical section, non-empty list:
\* video = self._videos[self._index]; self._index += 1; self._save_progress()
\* if self._index >= len(self._videos): Thread(target=self.reload).start()
L_NextItem(k) ==
  /\ loops[k].pc = "outer"
  /\ PlFree
  /\ running
  /\ videos # << >>
  /\ index < Len(videos)
  /\ index' = index + 1
  /\ progress_file' = SavedFile(videos, index + 1, 0, progress_file)
  /\ IF index + 1 >= Len(videos)
       THEN /\ \E b \in BgIds : ~ReloadBusy(b)
            /\ rl' = StartReload(LowestOf({b \in BgIds : ~ReloadBusy(b)}))
            /\ hist' = [NoteStarted(hist, videos[index + 1]) EXCEPT !.round = RoundAfter(hist, TRUE)]
       ELSE /\ rl' = rl
            /\ hist' = [NoteStarted(hist, videos[index + 1]) EXCEPT !.round = RoundAfter(hist, FALSE)]
  /\ loops' = [loops EXCEPT ![k].pc = "consume", ![k].video = videos[index + 1]]
  /\ UNCHANGED <<path, videos, resume_position, mode, pl_reader, lk, rcvars, stvars, web>>

\* Playlist.next with the cursor at the end of the list (reload pending):
\* self._videos[self._index] raises IndexError, which start() does not catch
L_NextRaises(k) ==
  /\ loops[k].pc = "outer"
  /\ PlFree
  /\ running
  /\ videos # << >>
  /\ index >= Len(videos)
  /\ loops' = [loops EXCEPT ![k].pc = "crashed"]
  /\ UNCHANGED <<plvars, stvars, web, hist>>

\* Playlist.next on an empty list: self.reload() after the lock is released
L_NextEmpty(k) ==
  /\ loops[k].pc = "outer"
  /\ PlFree
  /\ running
  /\ videos = << >>
  /\ rl' = StartReload(k)
  /\ loops' = [loops EXCEPT ![k].pc = "nx_reload"]
  /\ UNCHANGED <<path, videos, index, resume_position, progress_file, mode, pl_reader, lk, rcvars, stvars, web, hist>>

NextAfterReloadLast(vs, i) ==
  IF vs = << >> THEN [index |-> i, video |-> NoVideo]
  ELSE [index |-> Len(vs), video |-> vs[Len(vs)]]

\* Playlist.next, second critical section: if not self._videos: return None;
\* self._index = 1; ...; return self._videos[0]   (the cursor and the item returned)
NextAfterReload(vs, i) ==
  IF vs = << >> THEN [index |-> i, video |-> NoVideo]
  ELSE [index |-> 1, video |-> vs[1]]

\* Playlist.next, second critical section (after the reload); on None the loop
\* goes to time.sleep(base_delay)
L_NextAfterReload(k) ==
  /\ loops[k].pc = "nx_reload"
  /\ ~ReloadBusy(k)
  /\ PlFree
  /\ LET n == NextAfterReload(videos, index) IN
     IF n.video = NoVideo
       THEN /\ loops' = [loops EXCEPT ![k].pc = "idle_sleep", ![k].sleeping = BaseDelay]
            /\ UNCHANGED <<index, progress_file, hist>>
       ELSE /\ index' = n.index
            /\ progress_file' = SavedFile(videos, n.index, 0, progress_file)
            /\ hist' = [NoteStarted(hist, n.video) EXCEPT !.round = RoundAfter(hist, FALSE)]
            /\ loops' = [loops EXCEPT ![k].pc = "consume", ![k].video = n.video]
  /\ UNCHANGED <<path, videos, resume_position, rl, mode, pl_reader, lk, rcvars, stvars, web>>

\* how time.sleep(d) moves the clock of the cooldown gate
Slept(age, d) == Min(Cooldown, age + d)

\* log.warning("no video"); time.sleep(base_delay); continue
L_IdleSleep(k) ==
  /\ loops[k].pc = "idle_sleep"
  /\ since_diag' = Slept(since_diag, loops[k].sleeping)
  /\ loops' = [loops EXCEPT ![k].pc = "outer", ![k].sleeping = 0]
  /\ UNCHANGED <<plvars, running, skip_requested, process, proc, total_failures,
                 videos_played, current_video, current_time, seek_offset, max_retries,
                 cookie, diag, web, hist>>

\* video_retry = 0; resume_pos = self.playlist.consume_resume_position()
L_Consume(k) ==
  /\ loops[k].pc = "consume"
  /\ PlFree
  /\ resume_position' = Cleared(resume_position)
  /\ loops' = [loops EXCEPT ![k].pc = "inner", ![k].video_retry = 0, ![k].attempt = 0,
                            ![k].resume_pos = resume_position]
  /\ UNCHANGED <<path, videos, index, progress_file, rl, mode, pl_reader, lk, rcvars, stvars, web, hist>>

\* inner while self._running: (false) -> back to the outer while
L_InnerExit(k) ==
  /\ loops[k].pc = "inner"
  /\ ~running
  /\ loops' = [loops EXCEPT ![k].pc = "outer"]
  /\ UNCHANGED <<plvars, stvars, web, hist>>

\* with self._lock: current_video = video.name; telemetry reset;
\* self._seek_offset = resume_pos; cmd = self._build_ffmpeg_cmd(...)
L_Prepare(k) ==
  /\ loops[k].pc = "inner"
  /\ running
  /\ current_video' = loops[k].video
  /\ current_time' = 0
  /\ seek_offset' = loops[k].resume_pos
  /\ loops' = [loops EXCEPT ![k].pc = "spawn", ![k].cmd = stream_cfg]
  /\ UNCHANGED <<plvars, running, skip_requested, process, proc, total_failures,
                 videos_played, since_diag, max_retries, cookie, diag, web, hist>>

\* self._process = subprocess.Popen(cmd, ...); self._read_output() starts
L_Spawn(k) ==
  /\ loops[k].pc = "spawn"
  /\ FreeProcs # {}
  /\ LET p == LowestOf(FreeProcs) IN
       /\ proc' = [proc EXCEPT ![p] = "running"]
       /\ process' = p
       /\ loops' = [loops EXCEPT ![k].pc = "read", ![k].rp = p, ![k].cmd = NoLoop.cmd]
  /\ UNCHANGED <<plvars, running, skip_requested, total_failures, videos_played,
                 current_video, current_time, seek_offset, since_diag, max_retries,
                 cookie, diag, web, hist>>

\* Popen raises (encoder binary missing, no file descriptors, ...)
L_SpawnRaises(k) ==
  /\ loops[k].pc = "spawn"
  /\ total_failures < FailLimit
  /\ loops[k].attempt <= FailLimit
  /\ loops' = [loops EXCEPT ![k].pc = "except", ![k].cmd = NoLoop.cmd]
  /\ UNCHANGED <<plvars, stvars, web, hist>>

\* _read_output: for line in stdout: if not self._running: break
L_ReadBreak(k) ==
  /\ loops[k].pc = "read"
  /\ Alive(loops[k].rp)
  /\ ~running
  /\ loops' = [loops EXCEPT ![k].pc = "wait", ![k].rp = process]
  /\ UNCHANGED <<plvars, stvars, web, hist>>

\* _read_output: a "time=" line: current_time = _seek_offset + relative_time,
\* and every 10 s playlist.save_progress_with_position(current)
L_ReadLine(k) ==
  /\ loops[k].pc = "read"
  /\ Alive(loops[k].rp)
  /\ running
  /\ seek_offset + RelTime <= MaxPos
  /\ PlFree
  /\ current_time' = seek_offset + RelTime
  /\ \E save \in BOOLEAN :
       progress_file' = IF save THEN SavedFile(videos, index, seek_offset + RelTime, progress_file)
                        ELSE progress_file
  /\ UNCHANGED <<path, videos, index, resume_position, rl, mode, pl_reader, lk, rcvars, running, skip_requested,
                 process, proc, total_failures, videos_played, current_video,
                 seek_offset, since_diag, max_retries, cookie, diag, loops, web, hist>>

\* _read_output: end of the output stream; then self._process.wait() is called
L_ReadEOF(k) ==
  /\ loops[k].pc = "read"
  /\ ~Alive(loops[k].rp)
  /\ loops' = [loops EXCEPT ![k].pc = "wait", ![k].rp = process]
  /\ UNCHANGED <<plvars, stvars, web, hist>>

\* returncode = self._process.wait(); if self._skip_requested: ... break
L_ExitSkipped(k) ==
  /\ loops[k].pc = "wait"
  /\ ~Alive(loops[k].rp)
  /\ Classify(skip_requested, proc[loops[k].rp]) = "skipped"
  /\ skip_requested' = FALSE
  /\ loops' = [loops EXCEPT ![k].pc = "outer", ![k].rp = 0]
  /\ UNCHANGED <<plvars, running, process, proc, total_failures, videos_played,
                 current_video, current_time, seek_offset, since_diag, max_retries,
                 cookie, diag, web, hist>>

\* if returncode == 0: self.videos_played += 1; self._total_failures = 0; break
L_ExitCompleted(k) ==
  /\ loops[k].pc = "wait"
  /\ ~Alive(loops[k].rp)
  /\ Classify(skip_requested, proc[loops[k].rp]) = "completed"
  /\ videos_played' = videos_played + 1
  /\ total_failures' = 0
  /\ loops' = [loops EXCEPT ![k].pc = "outer", ![k].rp = 0]
  /\ UNCHANGED <<plvars, running, skip_requested, process, proc, current_video,
                 current_time, seek_offset, since_diag, max_retries, cookie, diag,
                 web, hist>>

\* video_retry += 1; self._total_failures += 1; resume_pos = self.current_time;
\* self.playlist.save_progress_with_position(resume_pos); then the retry policy
L_ExitFailed(k) ==
  /\ loops[k].pc = "wait"
  /\ PlFree
  /\ ~Alive(loops[k].rp)
  /\ Classify(skip_requested, proc[loops[k].rp]) = "failed"
  /\ total_failures <= FailLimit
  /\ loops[k].attempt <= FailLimit
  /\ total_failures' = total_failures + 1
  /\ progress_file' = SavedFile(videos, index, current_time, progress_file)
  /\ loops' = [loops EXCEPT ![k].pc = AfterFailure(total_failures + 1),
                            ![k].rp = 0,
                            ![k].video_retry = @ + 1,
                            ![k].attempt = @ + 1,
                            ![k].resume_pos = current_time,
                            ![k].sleeping = BackoffDelay(loops[k].video_retry + 1)]
  /\ UNCHANGED <<path, videos, index, resume_position, rl, mode, pl_reader, lk, rcvars, running, skip_requested,
                 process, proc, videos_played, current_video, current_time, seek_offset,
                 since_diag, max_retries, cookie, diag, web, hist>>

\* except Exception: self._total_failures += 1; resume_pos = self.current_time;
\* save_progress_with_position(resume_pos); time.sleep(base_delay)
L_Except(k) ==
  /\ loops[k].pc = "except"
  /\ PlFree
  /\ total_failures' = total_failures + 1
  /\ progress_file' = SavedFile(videos, index, current_time, progress_file)
  /\ loops' = [loops EXCEPT ![k].pc = "sleep",
                            ![k].attempt = @ + 1,
                            ![k].resume_pos = current_time,
                            ![k].sleeping = BaseDelay]
  /\ UNCHANGED <<path, videos, index, resume_position, rl, mode, pl_reader, lk, rcvars, running, skip_requested,
                 process, proc, videos_played, current_video, current_time, seek_offset,
                 since_diag, max_retries, cookie, diag, web, hist>>

\* time.sleep(delay) before the item is run again
L_Sleep(k) ==
  /\ loops[k].pc = "sleep"
  /\ since_diag' = Slept(since_diag, loops[k].sleeping)
  /\ loops' = [loops EXCEPT ![k].pc = "inner", ![k].sleeping = 0]
  /\ UNCHANGED <<plvars, running, skip_requested, process, proc, total_failures,
                 videos_played, current_video, current_time, seek_offset, max_retries,
                 cookie, diag, web, hist>>

\* ------------------------------------------------------ _trigger_diagnosis

InCooldownNever(age) == age < 0

\* if now - self._last_diagnosis_time < 60: return False
InCooldown(age) == age < Cooldown

ShouldStopInverted(rtmp_ok, key_ok, live_ok, has_cookie, recovery) ==
  IF ~rtmp_ok \/ ~key_ok \/ ~live_ok
    THEN IF has_cookie THEN recovery = "ok" ELSE TRUE
    ELSE FALSE

ShouldStopRetries(rtmp_ok, key_ok, live_ok, has_cookie, recovery) == FALSE

\* the recovery decision (streamer.py 540-562): TRUE means "stop the loop"
ShouldStop(rtmp_ok, key_ok, live_ok, has_cookie, recovery) ==
  IF ~rtmp_ok \/ ~key_ok \/ ~live_ok
    THEN IF has_cookie THEN recovery # "ok" ELSE TRUE
    ELSE FALSE

RecoveryInvokedOnAnyFailure(rtmp_ok, key_ok, live_ok, has_cookie) == has_cookie

\* _attempt_auto_restart is called
RecoveryInvoked(rtmp_ok, key_ok, live_ok, has_cookie) ==
  (~rtmp_ok \/ ~key_ok \/ ~live_ok) /\ has_cookie

\* one call of _trigger_diagnosis with the results of the checks and of recovery
\* (other_ok: the network, dns, webdav and system checks, which the decision ignores)
Triggered(reason, age, rtmp_ok, key_ok, live_ok, other_ok, rec) ==
  IF InCooldown(age)
    THEN [NoDiag EXCEPT !.reason = reason]
    ELSE [reason |-> reason, ran |-> TRUE, rtmp_ok |-> rtmp_ok, key_ok |-> key_ok,
          live_ok |-> live_ok, other_ok |-> other_ok,
          recovery |-> IF RecoveryInvoked(rtmp_ok, key_ok, live_ok, cookie) THEN rec ELSE "none",
          stop |-> ShouldStop(rtmp_ok, key_ok, live_ok, cookie, rec)]

\* self._last_diagnosis_time = now, unless the call was inside the cooldown
AgeAfterTrigger(age) == IF InCooldown(age) THEN age ELSE 0

CeilingStopsIfToldTo(d) == d.stop

\* the ceiling: self._trigger_diagnosis(...); self._running = False; break
CeilingStops(d) == TRUE

L_MaxDiag(k) ==
  /\ loops[k].pc = "maxdiag"
  /\ \E rtmp_ok \in BOOLEAN, key_ok \in BOOLEAN, live_ok \in BOOLEAN, other_ok \in BOOLEAN,
        rec \in {"ok", "fail"} :
       /\ diag' = Triggered("ceiling", since_diag, rtmp_ok, key_ok, live_ok, other_ok, rec)
       /\ running' = IF CeilingStops(diag') THEN FALSE ELSE running
       /\ loops' = [loops EXCEPT ![k].pc = IF CeilingStops(diag') THEN "outer" ELSE "sleep"]
  /\ since_diag' = AgeAfterTrigger(since_diag)
  /\ UNCHANGED <<plvars, skip_requested, process, proc, total_failures, videos_played,
                 current_video, current_time, seek_offset, max_retries, cookie, web, hist>>

\* the periodic check: should_stop = self._trigger_diagnosis(...);
\* if should_stop: self._running = False; break
L_PerDiag(k) ==
  /\ loops[k].pc = "perdiag"
  /\ \E rtmp_ok \in BOOLEAN, key_ok \in BOOLEAN, live_ok \in BOOLEAN, other_ok \in BOOLEAN,
        rec \in {"ok", "fail"} :
       /\ diag' = Triggered("periodic", since_diag, rtmp_ok, key_ok, live_ok, other_ok, rec)
       /\ running' = IF diag'.stop THEN FALSE ELSE running
       /\ loops' = [loops EXCEPT ![k].pc = IF diag'.stop THEN "outer" ELSE "sleep"]
  /\ since_diag' = AgeAfterTrigger(since_diag)
  /\ UNCHANGED <<plvars, skip_requested, process, proc, total_failures, videos_played,
                 current_video, current_time, seek_offset, max_retries, cookie, web, hist>>

\* ------------------------------------------------------ _attempt_auto_restart
\* the answers of the control API to the begin-broadcast request: code 0 with the
\* endpoint and the credential (either may be missing), code 60024 (identity
\* verification demanded, no stream data), another code, or no usable answer (the
\* request raises)
Responses ==
  {r \in [code : {"0", "60024", "other", "raise"}, addr : {"", "u2"}, key : {"", "k2"}] :
     r.code = "60024" => (r.addr = "" /\ r.key = "")}

ApplyOkEither(resp) == resp.addr # "" \/ resp.key # ""

\* _apply_new_stream_config: if not rtmp_url or not rtmp_code: return False
ApplyOk(resp) == resp.addr # "" /\ resp.key # ""

\* _apply_new_stream_config: the stream configuration in memory after the answer
NewStreamCfg(cfg, resp) ==
  IF ApplyOk(resp) THEN [rtmp_url |-> resp.addr, stream_key |-> resp.key] ELSE cfg

\* _trigger_diagnosis up to the call of _attempt_auto_restart (which starts with
\* the csrf token of the cookie), or to its return when recovery is not invoked
L_DiagCall(k) ==
  /\ loops[k].pc \in {"maxdiag", "perdiag"}
  /\ \E rtmp_ok \in BOOLEAN, key_ok \in BOOLEAN, live_ok \in BOOLEAN, csrf \in BOOLEAN :
       LET ceiling == loops[k].pc = "maxdiag"
           d == Triggered(IF ceiling THEN "ceiling" ELSE "periodic", since_diag,
                          rtmp_ok, key_ok, live_ok, TRUE, "none")
           halt == IF ceiling THEN CeilingStops(d) ELSE d.stop
       IN
       /\ diag' = d
       /\ IF d.ran /\ RecoveryInvoked(rtmp_ok, key_ok, live_ok, cookie)
            THEN /\ rc' = IF csrf THEN [NoRecovery EXCEPT !.pc = "post1"]
                                  ELSE [NoRecovery EXCEPT !.pc = "done", !.result = "fail"]
                 /\ loops' = [loops EXCEPT ![k].pc = "recover", ![k].sleeping =
                                IF ceiling THEN 0 ELSE @]
                 /\ running' = running
            ELSE /\ rc' = rc
                 /\ loops' = [loops EXCEPT ![k].pc = IF halt THEN "outer" ELSE "sleep"]
                 /\ running' = IF halt THEN FALSE ELSE running
  /\ since_diag' = AgeAfterTrigger(since_diag)
  /\ UNCHANGED <<path, videos, index, resume_position, progress_file, rl, mode, pl_reader,
                 lk, stream_cfg, config_file, skip_requested, process, proc,
                 total_failures, videos_played, current_video, current_time, seek_offset,
                 max_retries, cookie, web, hist>>

\* requests.post(startLive): the first request, and the second one after the
\* verification; code 0 -> _apply_new_stream_config (memory under the lock, then
\* config.yaml, whose rewrite may fail before or after the file was truncated)
A_Post ==
  /\ rc.pc \in {"post1", "post2"}
  /\ \E resp \in Responses, persist \in {"written", "unreadable", "truncated"} :
       LET ok   == resp.code = "0" /\ ApplyOk(resp)
           auth == rc.pc = "post1" /\ resp.code = "60024"
       IN
       /\ stream_cfg' = IF resp.code = "0" THEN NewStreamCfg(stream_cfg, resp) ELSE stream_cfg
       /\ config_file' =
            IF ~ok \/ persist = "unreadable" THEN config_file
            ELSE IF persist = "truncated" THEN [rtmp_url |-> "", stream_key |-> ""]
            ELSE NewStreamCfg(stream_cfg, resp)
       /\ rc' = [rc EXCEPT !.posts = @ + 1,
                           !.resp = resp,
                           !.pc = IF auth THEN "poll" ELSE "done",
                           !.result = IF ok THEN "ok" ELSE IF auth THEN "none" ELSE "fail"]
  /\ UNCHANGED <<path, videos, index, resume_position, progress_file, rl, mode, pl_reader,
                 lk, stvars, loops, web, hist>>

PollAbortsNever(run) == FALSE

\* if not self._running: return False
PollAborts(run) == ~run

\* while not is_verified and attempts < max_attempts: if not self._running:
\* return False; the poll; time.sleep(1); attempts += 1      (then: timed out)
A_Poll ==
  /\ rc.pc = "poll"
  /\ IF rc.attempts >= MaxAttempts
       THEN rc' = [rc EXCEPT !.pc = "done", !.result = "fail", !.why = "timeout"]
       ELSE IF PollAborts(running)
         THEN rc' = [rc EXCEPT !.pc = "done", !.result = "fail", !.why = "abort"]
         ELSE \E identified \in BOOLEAN :
                rc' = [rc EXCEPT !.polls = @ + 1,
                                 !.pc = IF identified THEN "post2" ELSE "poll",
                                 !.attempts = IF identified THEN @ ELSE @ + 1]
  /\ UNCHANGED <<path, videos, index, resume_position, progress_file, rl, mode, pl_reader,
                 lk, stream_cfg, config_file, stvars, loops, web, hist>>

\* _attempt_auto_restart returns into _trigger_diagnosis, which returns should_stop
\* to the loop
L_DiagReturn(k) ==
  /\ loops[k].pc = "recover"
  /\ rc.pc = "done"
  /\ LET stop == ShouldStop(diag.rtmp_ok, diag.key_ok, diag.live_ok, cookie, rc.result)
         halt == IF diag.reason = "ceiling" THEN CeilingStops(diag) ELSE stop
     IN
     /\ diag' = [diag EXCEPT !.recovery = rc.result, !.stop = stop]
     /\ loops' = [loops EXCEPT ![k].pc = IF halt THEN "outer" ELSE "sleep"]
     /\ running' = IF halt THEN FALSE ELSE running
  /\ rc' = NoRecovery
  /\ UNCHANGED <<path, videos, index, resume_position, progress_file, rl, mode, pl_reader,
                 lk, stream_cfg, config_file, skip_requested, process, proc,
                 total_failures, videos_played, current_video, current_time, seek_offset,
                 since_diag, max_retries, cookie, web, hist>>

\* after the loop: self.current_video = ""; self._cleanup()
L_Finish(k) ==
  /\ loops[k].pc = "finish"
  /\ current_video' = ""
  /\ proc' = CleanedUp(proc, process)
  /\ loops' = [loops EXCEPT ![k] = NoLoop]
  /\ UNCHANGED <<plvars, running, skip_requested, process, total_failures, videos_played,
                 current_time, seek_offset, since_diag, max_retries, cookie, diag, web, hist>>

\* ==================================================== the encode process

\* the encoder reaches the end of the item and exits with code 0
P_ExitClean(p) ==
  /\ proc[p] = "running"
  /\ videos_played < PlayedCap
  /\ proc' = [proc EXCEPT ![p] = "exit0"]
  /\ UNCHANGED <<plvars, running, skip_requested, process, total_failures, videos_played,
                 current_video, current_time, seek_offset, since_diag, max_retries,
                 cookie, diag, loops, web, hist>>

\* the encoder fails and exits with a non-zero code
P_ExitError(p) ==
  /\ proc[p] = "running"
  /\ total_failures < FailLimit
  /\ proc' = [proc EXCEPT ![p] = "exit1"]
  /\ UNCHANGED <<plvars, running, skip_requested, process, total_failures, videos_played,
                 current_video, current_time, seek_offset, since_diag, max_retries,
                 cookie, diag, loops, web, hist>>

\* more than the cooldown passes (an item plays, a diagnosis runs, ...)
Tick ==
  /\ since_diag < Cooldown
  /\ since_diag' = Cooldown
  /\ UNCHANGED <<plvars, running, skip_requested, process, proc, total_failures,
                 videos_played, current_video, current_time, seek_offset, max_retries,
                 cookie, diag, loops, web, hist>>

\* ================================================= the dashboard (web.py)

WebIdle == web.pc = "idle"

\* skip_video: if not _streamer.is_running: return;  Streamer.skip():
\* if self._process and self._process.poll() is None:
W_Skip ==
  /\ WebIdle
  /\ running
  /\ web' = IF ProcessActive THEN [pc |-> "set", op |-> "skip", item |-> NoVideo] ELSE web
  /\ hist' = IF ProcessActive THEN hist ELSE [hist EXCEPT !.skip_idle = TRUE]
  /\ UNCHANGED <<plvars, stvars, loops>>

JumpedIndexNoFloor(vs, old, i) == IF i < Len(vs) THEN i ELSE old

\* Playlist.jump_to: the cursor after jump_to(i)
JumpedIndex(vs, old, i) == IF 0 <= i /\ i < Len(vs) THEN i ELSE old

JumpOk(vs, i) == 0 <= i /\ i < Len(vs)

\* play_video: if not _streamer.is_running: return;  Streamer.play(index):
\* video = self.playlist.jump_to(index); if not video: return False
W_Play(i) ==
  /\ WebIdle
  /\ running
  /\ PlFree
  /\ hist' = IF JumpOk(videos, i)
               THEN [hist EXCEPT !.round = "jumped",
                                 !.want = IF ProcessActive THEN videos[i + 1] ELSE NoVideo,
                                 !.got = NoVideo,
                                 !.jump = [i |-> 0, ret |-> "ok"]]
               ELSE [hist EXCEPT !.jump = [i |-> i, ret |-> "absent"]]
  /\ index' = JumpedIndex(videos, index, i)
  /\ progress_file' = IF JumpOk(videos, i) THEN SavedFile(videos, i, 0, progress_file)
                      ELSE progress_file
  /\ web' = IF JumpOk(videos, i) THEN [pc |-> "play_chk", op |-> "play", item |-> videos[i + 1]]
            ELSE web
  /\ UNCHANGED <<path, videos, resume_position, rl, mode, pl_reader, lk, rcvars, stvars, loops>>

\* Streamer.play: if self._process and self._process.poll() is None:
W_PlayChk ==
  /\ web.pc = "play_chk"
  /\ web' = IF ProcessActive THEN [web EXCEPT !.pc = "set"] ELSE IdleWeb
  /\ UNCHANGED <<plvars, stvars, loops, hist>>

\* self._skip_requested = True
W_SetFlag ==
  /\ web.pc = "set"
  /\ skip_requested' = TRUE
  /\ web' = [web EXCEPT !.pc = "term"]
  /\ UNCHANGED <<plvars, running, process, proc, total_failures, videos_played,
                 current_video, current_time, seek_offset, since_diag, max_retries,
                 cookie, diag, loops, hist>>

\* self._process.terminate(); play() returns True
W_Terminate ==
  /\ web.pc = "term"
  /\ proc' = Terminated(proc, process, IF web.op = "play" THEN "term_play" ELSE "term_skip")
  /\ web' = IdleWeb
  /\ UNCHANGED <<plvars, running, skip_requested, process, total_failures, videos_played,
                 current_video, current_time, seek_offset, since_diag, max_retries,
                 cookie, diag, loops, hist>>

\* Streamer.stop: self._running = False
W_Stop ==
  /\ WebIdle
  /\ running' = FALSE
  /\ web' = [pc |-> "stop_clean", op |-> "stop", item |-> NoVideo]
  /\ hist' = [hist EXCEPT !.stopped = IF running THEN "stopping" ELSE "no"]
  /\ UNCHANGED <<plvars, skip_requested, process, proc, total_failures, videos_played,
                 current_video, current_time, seek_offset, since_diag, max_retries,
                 cookie, diag, loops>>

\* Streamer.stop: self._cleanup()
W_StopCleanup ==
  /\ web.pc = "stop_clean"
  /\ proc' = CleanedUp(proc, process)
  /\ web' = IdleWeb
  /\ hist' = [hist EXCEPT !.stopped = IF hist.stopped = "stopping" THEN "yes" ELSE "no"]
  /\ UNCHANGED <<plvars, running, skip_requested, process, total_failures, videos_played,
                 current_video, current_time, seek_offset, since_diag, max_retries,
                 cookie, diag, loops>>

FreeThreads == {k \in Threads : loops[k].pc = "none"}

\* start_stream: if _streamer.is_running: return;  _streamer.run_in_thread()
W_Start ==
  /\ WebIdle
  /\ ~running
  /\ FreeThreads # {}
  /\ loops' = [loops EXCEPT ![LowestOf(FreeThreads)] = [NoLoop EXCEPT !.pc = "init"]]
  /\ hist' = [hist EXCEPT !.stopped = "no"]
  /\ UNCHANGED <<plvars, stvars, web>>

\* switch_dir: Playlist.switch_path(new_path): source.path = new_path; self.reload()
W_Switch(new_path) ==
  /\ WebIdle
  /\ path' = new_path
  /\ rl' = StartReload(WebId)
  /\ web' = [pc |-> "sw_reload", op |-> "switch", item |-> NoVideo]
  /\ UNCHANGED <<videos, index, resume_position, progress_file, mode, pl_reader, lk, rcvars, stvars, loops, hist>>

\* switch_dir: _streamer.skip() once switch_path has returned
W_SwitchSkip ==
  /\ web.pc = "sw_reload"
  /\ ~ReloadBusy(WebId)
  /\ web' = IF ProcessActive THEN [web EXCEPT !.pc = "set"] ELSE IdleWeb
  /\ UNCHANGED <<plvars, stvars, loops, hist>>

\* ========================================================== specifications

\* the steps of Streamer.start every specification has
LoopCore(k) ==
  \/ L_StartCheck(k) \/ L_SetRun(k)
  \/ L_NextItem(k) \/ L_Consume(k) \/ L_Prepare(k)
  \/ L_Spawn(k) \/ L_ReadEOF(k)
  \/ L_ExitFailed(k) \/ L_Sleep(k)

\* leaving the loop
LoopEnd(k) == L_OuterExit(k) \/ L_Finish(k)

\* the steps that need a stop or skip request
LoopCtl(k) == L_InnerExit(k) \/ L_ReadBreak(k) \/ L_ExitSkipped(k)

\* the exception path
LoopExc(k) == L_SpawnRaises(k) \/ L_Except(k)

\* the name in the checkpoint from which the stored resume offset was restored
CkName(r) ==
  IF rl[r].pc = "apply" /\ RestoreApplies(videos, rl[r].data)
    THEN rl[r].data.video_name ELSE hist.ck_name

Reload(r) ==
  /\ ReloadStep(r)
  /\ hist' = [hist EXCEPT !.round = IF r \in BgIds /\ ReloadReturns(r) /\ @ = "wrapped"
                                      THEN "reloaded" ELSE @,
                          !.ck_name = CkName(r)]
  /\ UNCHANGED <<stvars, loops, web>>

ReloadRandom(r) ==
  /\ ReloadStepRandom(r)
  /\ hist' = [hist EXCEPT !.round = IF r \in BgIds /\ ReloadReturns(r) /\ @ = "wrapped"
                                      THEN "reloaded" ELSE @,
                          !.ck_name = CkName(r)]
  /\ UNCHANGED <<stvars, loops, web>>

\* Playlist.videos (the playlist summary of the dashboard): with self._lock: ...
R_Begin ==
  /\ PlFree
  /\ pl_reader' = [held |-> TRUE, videos |-> videos, index |-> index]
  /\ UNCHANGED <<path, videos, index, resume_position, progress_file, rl, mode, lk, rcvars,
                 stvars, loops, web, hist>>

\* ... the summary is built and the lock released
R_End ==
  /\ pl_reader.held
  /\ pl_reader' = NoSnap
  /\ UNCHANGED <<path, videos, index, resume_position, progress_file, rl, mode, lk, rcvars,
                 stvars, loops, web, hist>>

\* The control model: one supervisor thread (started by main), the background
\* reload, the encode processes and the dashboard requests skip, play and stop.
\* max_retries = 0 (unbounded), sequential mode.
Init ==
  /\ InitCommon
  /\ mode = "sequential"
  /\ videos = Listing(path)
  /\ max_retries = 0
  /\ cookie = FALSE

Next ==
  \/ LoopCore(1) \/ LoopEnd(1) \/ LoopCtl(1) \/ L_ExitCompleted(1) \/ L_NextRaises(1)
  \/ \E r \in BgIds : Reload(r)
  \/ \E p \in ProcIds : P_ExitClean(p) \/ P_ExitError(p)
  \/ W_Skip \/ W_SetFlag \/ W_Terminate
  \/ \E i \in 0..1 : W_Play(i)
  \/ W_PlayChk
  \/ W_Stop \/ W_StopCleanup

Spec == Init /\ [][Next]_vars

\* The empty-catalog model: the program is started on an empty directory (path "e");
\* the loop asks, reloads and sleeps; a switch_dir request of the dashboard points
\* the source to a directory with items.
InitEmpty ==
  /\ path = "e"
  /\ index = 0
  /\ resume_position = 0
  /\ progress_file = NoFile
  /\ hist = NoHist
  /\ InitStreamer
  /\ mode = "sequential"
  /\ videos = << >>
  /\ max_retries = 0
  /\ cookie = FALSE

NextEmpty ==
  \/ LoopCore(1) \/ L_NextEmpty(1) \/ L_NextAfterReload(1) \/ L_IdleSleep(1)
  \/ L_ExitSkipped(1)
  \/ \E r \in Runners : Reload(r)
  \/ \E p \in ProcIds : P_ExitError(p)
  \/ (path = "e" /\ \E new_path \in {"p", "q"} : W_Switch(new_path))
  \/ W_SwitchSkip \/ W_SetFlag \/ W_Terminate

SpecEmpty == InitEmpty /\ [][NextEmpty]_vars

\* the supervisor thread, the reloads and a request that has begun keep running
FairEmpty ==
  /\ WF_vars(LoopCore(1) \/ L_NextEmpty(1) \/ L_NextAfterReload(1) \/ L_IdleSleep(1)
                \/ L_ExitSkipped(1))
  /\ WF_vars(\E r \in Runners : Reload(r))
  /\ WF_vars(W_SwitchSkip \/ W_SetFlag \/ W_Terminate)

SpecEmptyLive == SpecEmpty /\ FairEmpty

\* The directory-switch model: the loop, the reload threads and switch_dir requests
\* of the dashboard between the directories "p" and "q".
NextSwitch ==
  \/ LoopCore(1) \/ L_ExitSkipped(1) \/ L_ExitCompleted(1) \/ L_NextRaises(1)
  \/ \E r \in BgIds \cup {WebId} : Reload(r)
  \/ \E p \in ProcIds : P_ExitClean(p) \/ P_ExitError(p)
  \/ \E new_path \in {"p", "q"} : W_Switch(new_path)
  \/ W_SwitchSkip \/ W_SetFlag \/ W_Terminate

SpecSwitch == Init /\ [][NextSwitch]_vars

\* The start/stop model: the supervisor threads that start requests create.
\* The reload thread of a finished round is started and not followed further
\* (Spec and SpecList follow it).
NextStart ==
  \/ \E k \in Threads : LoopCore(k) \/ LoopEnd(k) \/ L_InnerExit(k) \/ L_ReadBreak(k)
  \/ W_Stop \/ W_StopCleanup \/ W_Start

SpecStart == Init /\ [][NextStart]_vars

\* The retry model: one supervisor thread, failures up to the ceiling, diagnosis
\* and recovery.
InitRetry ==
  /\ InitCommon
  /\ mode = "sequential"
  /\ videos = Listing(path)
  /\ max_retries \in {0, RetryCeil}
  /\ cookie \in BOOLEAN

NextRetry ==
  \/ LoopCore(1) \/ LoopEnd(1) \/ LoopExc(1) \/ L_ReadLine(1) \/ L_ExitCompleted(1)
  \/ L_MaxDiag(1) \/ L_PerDiag(1)
  \/ \E r \in BgIds : Reload(r)
  \/ \E p \in ProcIds : P_ExitClean(p) \/ P_ExitError(p)
  \/ Tick

SpecRetry == InitRetry /\ [][NextRetry]_vars

\* The playlist model: the callers of the playlist (the loop's next(), play, the
\* background reload and its restoration, the summary reader) in random mode.
InitList ==
  /\ InitCommon
  /\ mode = "random"
  /\ videos \in Shuffles(Listing(path))
  /\ max_retries = 0
  /\ cookie = FALSE

NextList ==
  \/ LoopCore(1) \/ L_ExitSkipped(1) \/ L_ExitCompleted(1) \/ L_NextRaises(1)
  \/ \E r \in BgIds : ReloadRandom(r)
  \/ \E p \in ProcIds : P_ExitClean(p)
  \/ \E i \in 0..1 : W_Play(i)
  \/ W_PlayChk \/ W_SetFlag \/ W_Terminate
  \/ R_Begin \/ R_End

SpecList == InitList /\ [][NextList]_vars

\* ------------------------------------------------- the playlist, called directly
\* The checkpoint model: the methods of Playlist called one at a time by one
\* caller, and the program restarted on the checkpoint that is on disk.

\* Playlist.jump_to(i)
K_JumpTo(i) ==
  /\ PlFree
  /\ index' = JumpedIndex(videos, index, i)
  /\ progress_file' = IF JumpOk(videos, i) THEN SavedFile(videos, i, 0, progress_file)
                      ELSE progress_file
  /\ hist' = IF JumpOk(videos, i) THEN [hist EXCEPT !.saved_pos = 0, !.fresh = FALSE]
             ELSE hist
  /\ UNCHANGED <<path, videos, resume_position, rl, mode, pl_reader, lk, rcvars, stvars, loops, web>>

\* Playlist.save_progress_with_position(position)
K_Save(position) ==
  /\ PlFree
  /\ progress_file' = SavedFile(videos, index, position, progress_file)
  /\ hist' = IF videos # << >> /\ index <= Len(videos)
               THEN [hist EXCEPT !.saved_pos = position, !.fresh = FALSE]
               ELSE hist
  /\ UNCHANGED <<path, videos, index, resume_position, rl, mode, pl_reader, lk, rcvars, stvars, loops, web>>

\* Playlist.consume_resume_position()
K_Consume ==
  /\ PlFree
  /\ Len(hist.rets) < MaxCalls
  /\ resume_position' = Cleared(resume_position)
  /\ hist' = [hist EXCEPT !.rets = Append(@, resume_position), !.fresh = FALSE]
  /\ UNCHANGED <<path, videos, index, progress_file, rl, mode, pl_reader, lk, rcvars, stvars, loops, web>>

\* the program is started again with the source at path q:
\* Playlist.__init__ (_index = 0, _resume_position = 0.0, reload())
K_Fresh(q) ==
  /\ path' = q
  /\ videos' \in (IF mode = "random" THEN Shuffles(Listing(q)) ELSE {Listing(q)})
  /\ index' = IF videos' = << >> \/ progress_file = NoFile THEN 0
              ELSE RestoredIndex(videos', progress_file, 0)
  /\ resume_position' = IF videos' = << >> \/ progress_file = NoFile THEN 0
                        ELSE RestoredResume(videos', progress_file, 0)
  /\ hist' = [hist EXCEPT !.fresh = TRUE, !.restored = resume_position', !.rets = << >>]
  /\ UNCHANGED <<progress_file, rl, mode, pl_reader, lk, rcvars, stvars, loops, web>>

InitCkpt ==
  /\ InitCommon
  /\ mode \in {"sequential", "random"}
  /\ videos \in (IF mode = "random" THEN Shuffles(Listing(path)) ELSE {Listing(path)})
  /\ max_retries = 0
  /\ cookie = FALSE

NextCkpt ==
  \/ \E i \in 0..MaxJump : K_JumpTo(i)
  \/ \E position \in 0..MaxPos : K_Save(position)
  \/ K_Consume
  \/ \E q \in Paths : K_Fresh(q)

SpecCkpt == InitCkpt /\ [][NextCkpt]_vars

\* The resume model: the program is started by main() on the checkpoint a previous
\* run left while its source was at path "q"; one supervisor thread plays and
\* retries, the encoder reports its position, the round ends with a reload.
InitSeek ==
  /\ InitStreamer
  /\ mode = "sequential"
  /\ max_retries = 0
  /\ cookie = FALSE
  /\ path \in {"p", "d"}
  /\ videos = Listing(path)
  /\ \E i \in 1..Len(Listing("q")), position \in {0, RelTime} :
       progress_file = SaveRecord(Listing("q"), i, position)
  /\ index = RestoredIndex(videos, progress_file, 0)
  /\ resume_position = RestoredResume(videos, progress_file, 0)
  /\ hist = [NoHist EXCEPT !.ck_name = IF RestoreApplies(videos, progress_file)
                                         THEN progress_file.video_name ELSE ""]

NextSeek ==
  \/ LoopCore(1) \/ L_ReadLine(1) \/ L_ExitCompleted(1)
  \/ \E r \in BgIds : Reload(r)
  \/ \E p \in ProcIds : P_ExitClean(p) \/ P_ExitError(p)

SpecSeek == InitSeek /\ [][NextSeek]_vars

\* ------------------------------------------------- the lock scopes of the threads
\* The lock model: every thread steps through the lock scopes and the outside
\* calls of the operation it executes; the data of the program is left alone.
datavars == <<path, videos, index, resume_position, progress_file, rl, mode, pl_reader,
              rcvars, stvars, loops, web, hist>>

\* thread a has finished the operation it was executing
Done(a) == lk.th[a].i > Len(Prog(lk.th[a].op))

\* the step thread a is at
Instr(a) == Prog(lk.th[a].op)[lk.th[a].i]

\* thread a holds a lock
Holds(a) == lk.S = a \/ lk.P = a

\* thread a is inside the outside call e
InCall(a, e) == ~Done(a) /\ Instr(a).k = "ext" /\ Instr(a).x = e

\* thread a waits for a lock that thread b holds
WaitsFor(a, b) == ~Done(a) /\ Instr(a).k = "acq" /\ lk[Instr(a).x] = b

\* thread a goes on to the operation op
T_Begin(a, op) ==
  /\ Done(a)
  /\ op \in Follow(a, lk.th[a].op)
  /\ lk' = [lk EXCEPT !.th[a] = [op |-> op, i |-> 1]]
  /\ UNCHANGED datavars

\* with self._lock: the thread enters when the lock is free
T_Acquire(a) ==
  /\ ~Done(a)
  /\ Instr(a).k = "acq"
  /\ lk[Instr(a).x] = ""
  /\ lk' = [lk EXCEPT ![Instr(a).x] = a, !.th[a].i = @ + 1]
  /\ UNCHANGED datavars

\* the end of the with block
T_Release(a) ==
  /\ ~Done(a)
  /\ Instr(a).k = "rel"
  /\ lk' = [lk EXCEPT ![Instr(a).x] = "", !.th[a].i = @ + 1]
  /\ UNCHANGED datavars

\* the outside call returns
T_Return(a) ==
  /\ ~Done(a)
  /\ Instr(a).k = "ext"
  /\ lk' = [lk EXCEPT !.th[a].i = @ + 1]
  /\ progress_file' =
       CASE Instr(a).x = "disk_open"  -> TruncatedFile
         [] Instr(a).x = "disk_write" -> SavedFile(videos, index, 0, progress_file)
         [] OTHER                     -> progress_file
  /\ hist' = IF Instr(a).x = "disk_read"     \* exists() and read_text(), no lock held
             THEN [hist EXCEPT !.seen = CASE progress_file = NoFile        -> "absent"
                                          [] progress_file = TruncatedFile -> "empty"
                                          [] OTHER                         -> "record"]
             ELSE hist
  /\ UNCHANGED <<path, videos, index, resume_position, rl, mode, pl_reader, rcvars,
                 stvars, loops, web>>

InitLock ==
  /\ InitCommon
  /\ videos = Listing(path)
  /\ mode = "sequential"
  /\ max_retries = 0
  /\ cookie = FALSE

NextLock ==
  \E a \in LockThreads :
    \/ \E op \in Follow(a, lk.th[a].op) : T_Begin(a, op)
    \/ T_Acquire(a)
    \/ T_Release(a)
    \/ T_Return(a)

SpecLock == InitLock /\ [][NextLock]_vars

\* The recovery model: one supervisor thread whose item keeps failing, the
\* diagnosis at the ceiling (max_retries = 1) or the periodic one (max_retries = 6),
\* the run of _attempt_auto_restart step by step, and the stop request.
InitRecover ==
  /\ InitCommon
  /\ mode = "sequential"
  /\ videos = Listing(path)
  /\ max_retries \in {1, DiagEvery + 1}
  /\ cookie \in BOOLEAN

NextRecover ==
  \/ LoopCore(1) \/ LoopEnd(1) \/ L_InnerExit(1) \/ L_ReadBreak(1)
  \/ L_DiagCall(1) \/ A_Post \/ A_Poll \/ L_DiagReturn(1)
  \/ \E p \in ProcIds : P_ExitError(p)
  \/ W_Stop \/ W_StopCleanup

SpecRecover == InitRecover /\ [][NextRecover]_vars

\* The play model: one supervisor thread, the encode processes, the background
\* reload and play requests of the dashboard with any index.
NextPlay ==
  \/ LoopCore(1) \/ L_ExitSkipped(1) \/ L_ExitCompleted(1) \/ L_NextRaises(1)
  \/ \E r \in BgIds : Reload(r)
  \/ \E p \in ProcIds : P_ExitClean(p) \/ P_ExitError(p)
  \/ \E i \in -1..MaxJump : W_Play(i)
  \/ W_PlayChk \/ W_SetFlag \/ W_Terminate

SpecPlay == Init /\ [][NextPlay]_vars

\* ================================================================== claims

\* C1: after the last item of a round has been returned by next() (no jump since),
\* the cursor is 0 once the reload that next() triggered has finished, so that the
\* following next() returns the first item of the catalog.
C1_WrapReturnsToStart == hist.round = "reloaded" => index = 0

\* C2: the cursor is always within [0, len(sequence)], and a reader holding the
\* playlist lock sees one cursor and one sequence for as long as it holds the lock.
C2_ConsistentCursor ==
  /\ 0 <= index /\ index <= Len(videos)
  /\ pl_reader.held => (pl_reader.videos = videos /\ pl_reader.index = index)

\* C3: when the loop observes the exit of a process that skip() terminated, it
\* clears the skip flag and goes on to next() without counting a failure, a retry
\* or a played item and without a backoff sleep.
C3_SkipNotPenalised ==
  [][\A k \in Threads :
       (loops[k].pc = "wait" /\ loops'[k].pc # "wait" /\ proc[loops[k].rp] = "term_skip")
         => /\ ~skip_requested'
            /\ total_failures' = total_failures
            /\ videos_played' = videos_played
            /\ loops'[k].video_retry = loops[k].video_retry
            /\ loops'[k].pc = "outer"]_vars

\* C4: with max_retries > 0, when the loop finds the cumulative-failure counter at
\* the ceiling it runs one diagnosis and then stops, whatever the diagnosis reports.
C4_CeilingDiagnosesAndStops ==
  [][\A k \in Threads :
       (loops[k].pc = "maxdiag" /\ loops'[k].pc # "maxdiag")
         => (diag'.ran /\ ~running' /\ loops'[k].pc = "outer")]_vars

\* C5: the n-th retry of the same item waits min(base_delay * 2^(n-1), max_delay)
\* seconds, n counting the failed attempts of the item since it was taken.
C5_BackoffDoubles ==
  \A k \in Threads :
    loops[k].pc = "sleep"
      => loops[k].sleeping = Min(BaseDelay * Pow2(loops[k].attempt - 1), MaxDelay)

\* C6: a diagnosis trigger less than 60 s after the last diagnosis that ran, for
\* either trigger reason, produces no report, invokes no recovery, returns "do not
\* stop" and leaves the last-diagnosis time unchanged.
C6_CooldownSkips ==
  [][\A k \in Threads :
       (loops[k].pc \in {"maxdiag", "perdiag"} /\ loops'[k].pc # loops[k].pc
          /\ since_diag < Cooldown)
         => /\ ~diag'.ran
            /\ diag'.recovery = "none"
            /\ ~diag'.stop
            /\ since_diag' = since_diag]_vars

C6_Witness ==
  /\ diag.reason \in {"ceiling", "periodic"}
  /\ ~diag.ran
  /\ since_diag < Cooldown

\* C7: once a stop() called while the run flag was set has returned, no encode
\* process is running (none is left running and none is spawned afterwards).
C7_StopEndsEncoding == hist.stopped = "yes" => \A p \in ProcIds : proc[p] # "running"

\* C8: at most one supervisor loop and at most one encode process exist at any time.
InLoop(k) == loops[k].pc \notin {"none", "init", "setrun", "finish", "crashed"}

C8_OneSupervisor ==
  /\ Cardinality({k \in Threads : InLoop(k)}) <= 1
  /\ Cardinality({p \in ProcIds : proc[p] = "running"}) <= 1

\* C9: after play(index) was called for a valid index with a process active, the
\* next item the loop takes from the playlist is the item at that index.
C9_PlayStartsTarget == hist.got # NoVideo => hist.got = hist.want

\* C10 (as claimed): whenever a diagnosis that ran reports the transport and the
\* credential check failing and recovery succeeds, the supervisor stays running and
\* sleeps before re-running the same item, whatever triggered the diagnosis.
RecoveredRun(d) == d.ran /\ ~d.rtmp_ok /\ ~d.key_ok /\ d.recovery = "ok"

C10_RecoveryResumes ==
  [][\A k \in Threads :
       (loops[k].pc \in {"maxdiag", "perdiag"} /\ loops'[k].pc # loops[k].pc
          /\ RecoveredRun(diag'))
         => /\ running' = running
            /\ loops'[k].pc = "sleep"
            /\ loops'[k].video = loops[k].video]_vars

\* C10 (amended): after a periodic diagnosis that ran, found transport and
\* credential failing and recovered, the loop keeps the run flag, sleeps and re-runs
\* the same item seeking to the position recorded at the failure; a diagnosis at
\* the ceiling stops the supervisor whatever it reports.
C10_PeriodicRecoveryResumes ==
  [][\A k \in Threads :
       /\ (loops[k].pc = "perdiag" /\ loops'[k].pc # "perdiag" /\ RecoveredRun(diag'))
            => /\ running' = running
               /\ loops'[k].pc = "sleep"
               /\ loops'[k].video = loops[k].video
               /\ loops'[k].resume_pos = current_time
       /\ (loops[k].pc = "maxdiag" /\ loops'[k].pc # "maxdiag")
            => (~running' /\ loops'[k].pc = "outer")
       /\ (loops[k].pc = "inner" /\ loops'[k].pc = "spawn")
            => (seek_offset' = loops[k].resume_pos /\ current_video' = loops[k].video)]_vars

C10_Witness ==
  \E k \in Threads :
    /\ loops[k].pc = "spawn"
    /\ diag.reason = "periodic" /\ RecoveredRun(diag)
    /\ running
    /\ seek_offset = RelTime

\* C11: when a diagnosis that ran ends with recovery reporting failure, or finds the
\* transport, credential or live-status check failing with no control-API cookie
\* configured, the loop clears the run flag and leaves the item (no sleep, no
\* retry), and a loop that finds the run flag cleared exits instead of taking an item.
FatalRun(d) ==
  d.ran /\ (d.recovery = "fail" \/ ((~d.rtmp_ok \/ ~d.key_ok \/ ~d.live_ok) /\ ~cookie))

C12_RecoveryOnlyWhenFlagged ==
  /\ diag.recovery \in {"none", "ok", "fail"}
  /\ diag.recovery # "none"
       => (diag.ran /\ (~diag.rtmp_ok \/ ~diag.key_ok \/ ~diag.live_ok) /\ cookie)
  /\ (diag.ran /\ diag.rtmp_ok /\ diag.key_ok /\ diag.live_ok) => diag.recovery = "none"

C12_Witness ==
  /\ diag.ran /\ diag.rtmp_ok /\ diag.key_ok /\ diag.live_ok /\ ~diag.other_ok
  /\ cookie
  /\ diag.recovery = "none"

NamePresent == FirstAt(videos, progress_file.video_name, 1) > 0

C15_RoundTrip ==
  (hist.fresh /\ progress_file.index > 0)
    => /\ resume_position = hist.saved_pos
       /\ IF NamePresent THEN videos[index + 1] = progress_file.video_name
          ELSE index = progress_file.index

\* C15 (amended): the resume position is p rounded to 1/10 s and the cursor is on
\* the first item named X when the catalog has one; else, when the saved cursor
\* index is below the catalog's length, the cursor is that index and the resume
\* position p rounded; else the cursor is 0 and the resume position 0.
C15_RoundTripRounded ==
  (hist.fresh /\ progress_file.index > 0)
    => IF NamePresent
         THEN /\ resume_position = Round1(hist.saved_pos)
              /\ videos[index + 1] = progress_file.video_name
              /\ \A j \in 1..index : videos[j] # progress_file.video_name
         ELSE IF progress_file.index < Len(videos)
           THEN resume_position = Round1(hist.saved_pos) /\ index = progress_file.index
           ELSE resume_position = 0 /\ index = 0

C15_Witness ==
  /\ hist.fresh /\ progress_file.index > 0
  /\ NamePresent
  /\ hist.saved_pos = RelTime
  /\ resume_position = Round1(RelTime)
  /\ index > 0

\* C16: of the calls of consume_resume_position() made after a restoration with
\* nothing in between, the first returns the restored resume offset and the second
\* returns zero; each leaves the stored offset at zero.
C16_ConsumeOnce ==
  /\ Len(hist.rets) >= 1 => (hist.rets[1] = hist.restored /\ resume_position = 0)
  /\ Len(hist.rets) >= 2 => hist.rets[2] = 0

C16_Witness ==
  /\ Len(hist.rets) = 2
  /\ hist.rets[1] = Round1(RelTime)
  /\ hist.rets[2] = 0

\* C17: when the loop applies, to the first attempt of an item, a non-zero resume
\* offset it consumed from the playlist, the item's name is the item name of the
\* checkpoint that offset was restored from.
C17_SeekOnlyCheckpointItem ==
  [][\A k \in Threads :
       (loops[k].pc = "inner" /\ loops'[k].pc = "spawn"
          /\ loops[k].attempt = 0 /\ loops[k].resume_pos > 0)
         => loops[k].video = hist.ck_name]_vars

\* C18: right after a playlist is built on a checkpoint, the cursor is on the first
\* item that has the saved name when there is one; only when there is none it is
\* the saved cursor index, and only when that index is within the catalog; else
\* the cursor is 0 and no resume offset is stored.
C18_RestoreNameThenIndex ==
  hist.fresh
    => IF videos = << >> \/ progress_file = NoFile
         THEN index = 0 /\ resume_position = 0
       ELSE IF NamePresent
         THEN /\ index = FirstAt(videos, progress_file.video_name, 1) - 1
              /\ \A j \in 1..Len(videos) :
                   videos[j] = progress_file.video_name => index + 1 <= j
              /\ resume_position = progress_file.position
       ELSE IF 0 <= progress_file.index /\ progress_file.index < Len(videos)
         THEN index = progress_file.index /\ resume_position = progress_file.position
       ELSE index = 0 /\ resume_position = 0

C18_Witness ==
  /\ hist.fresh
  /\ videos = <<"a", "b", "a">>
  /\ progress_file.video_name = "a" /\ progress_file.index = 2
  /\ index = 0

\* the calls during which the loop is blocked on the encode process, on a timer, on
\* diagnosis or recovery, or on the listing of a catalog source
EncodeBlocking == {"read_output", "wait_exit", "sleep", "diagnose", "recover", "list"}

\* C19: a thread that is blocked reading the encoder's output, waiting for its
\* exit, sleeping, diagnosing, recovering or listing a source holds neither the
\* Streamer's nor the Playlist's lock, so a status, summary, skip or play request
\* that waits for a lock never waits for such a thread.
C19_NoLockWhileBlocked ==
  /\ \A a \in LockThreads :
       (\E e \in EncodeBlocking : InCall(a, e)) => ~Holds(a)
  /\ \A a, b \in LockThreads :
       WaitsFor(a, b) => ~(\E e \in EncodeBlocking : InCall(b, e))

\* a status request holds the Streamer's lock while the loop is blocked reading the
\* encoder's output and the reload thread is listing the source
C19_Witness ==
  /\ InCall("loop", "read_output")
  /\ InCall("bg", "list")
  /\ lk.S = "web1" /\ lk.th["web1"].op = "status"

\* C20: no thread is inside a disk, network or subprocess call while it holds the
\* Streamer's or the Playlist's lock.
C20_NoIoUnderLock ==
  \A a \in LockThreads : (~Done(a) /\ Instr(a).k = "ext") => ~Holds(a)

\* C21: whatever writers of progress.json (next, jump_to, the position saves) run
\* beside it, the read of _restore_progress finds no file, or a complete record,
\* never an empty file.
C21_ReaderSeesWholeRecord == hist.seen # "empty"

\* C22: once the last diagnosis was a fatal one (the ceiling was reached, recovery
\* failed, or a flagged check met no control-API cookie), no encode process is
\* started any more (no start() follows in this model).
C22_NoSpawnAfterFatal ==
  [][(diag.reason = "ceiling" \/ FatalRun(diag))
       => \A p \in ProcIds : proc'[p] = "running" => proc[p] = "running"]_vars

\* the supervisor thread has ended after the ceiling was reached
C22_Witness ==
  /\ diag.reason = "ceiling"
  /\ ~running
  /\ loops[1] = NoLoop
  /\ total_failures = RetryCeil

\* C23: with max_retries > 0 no attempt is started once the cumulative-failure
\* counter has reached max_retries: the run of failed attempts has ended with the
\* supervisor stopped.
C23_RetriesBounded ==
  \A k \in Threads :
    (max_retries > 0 /\ loops[k].pc = "spawn") => total_failures < max_retries

\* C24: the next() that returns the last item of a round returns that item in the
\* same step in which it starts the reload thread (the reload has not listed
\* anything yet), and while a reload is under way the loop's step towards the
\* encode process of the item it holds is never disabled.
C24_NextDoesNotWait ==
  /\ [][\A k \in Threads :
         (loops[k].pc = "outer" /\ loops'[k].pc = "consume" /\ index' >= Len(videos))
           => /\ loops'[k].video = videos[Len(videos)]
              /\ \E b \in BgIds : ~ReloadBusy(b) /\ rl'[b].pc = "list"]_vars
  /\ [](\A k \in Threads :
         ((\E b \in BgIds : ReloadBusy(b)) /\ loops[k].pc \in {"consume", "inner", "spawn"})
           => ENABLED (LoopCore(k) \/ LoopCtl(k)))

\* the last item of the round is being encoded while the reload lists the source
C24_Witness ==
  \E k \in Threads, b \in BgIds :
    /\ rl[b].pc = "list"
    /\ loops[k].pc = "read" /\ Alive(loops[k].rp)
    /\ loops[k].video = videos[Len(videos)]
    /\ current_video = loops[k].video

\* C25: when the loop observes exit code 0 with the skip flag not set, the
\* items-played counter grows by exactly one, the cumulative-failure counter becomes
\* 0 and the loop is back at the top of the outer while (the next item); and the
\* cumulative-failure counter goes from positive to 0 in no other step than that
\* one or the reset in start().
C25_CleanCompletion ==
  [][/\ \A k \in Threads :
          (loops[k].pc = "wait" /\ loops'[k].pc # "wait" /\ ~skip_requested
             /\ proc[loops[k].rp] = "exit0")
            => /\ videos_played' = videos_played + 1
               /\ total_failures' = 0
               /\ loops'[k].pc = "outer"
     /\ (total_failures > 0 /\ total_failures' = 0)
          => \E k \in Threads :
               \/ loops[k].pc = "setrun"
               \/ (loops[k].pc = "wait" /\ ~skip_requested /\ proc[loops[k].rp] = "exit0")]_vars

\* an item completed on its second attempt: counted once, the failure forgotten
C25_Witness ==
  \E k \in Threads :
    /\ loops[k].pc = "outer"
    /\ loops[k].video_retry = 1
    /\ videos_played = 1
    /\ total_failures = 0
    /\ ~skip_requested

\* C26: when the loop observes a non-zero exit with the skip flag not set, the
\* per-item retry counter and the cumulative-failure counter each grow by one and
\* the checkpoint written in that step names the failed item and holds the elapsed
\* position as its offset; the next attempt runs the same item seeking to it.
C26_FailureCheckpointsItem ==
  [][\A k \in Threads :
       /\ (loops[k].pc = "wait" /\ loops'[k].pc # "wait" /\ ~skip_requested
              /\ proc[loops[k].rp] = "exit1")
            => /\ loops'[k].video_retry = loops[k].video_retry + 1
               /\ total_failures' = total_failures + 1
               /\ loops'[k].resume_pos = current_time
               /\ progress_file'.video_name = loops[k].video
               /\ progress_file'.position = Round1(current_time)
       /\ (loops[k].pc = "inner" /\ loops'[k].pc = "spawn")
            => (seek_offset' = loops[k].resume_pos /\ current_video' = loops[k].video)]_vars

\* C27: every step that makes the cumulative-failure counter a positive multiple of
\* 5 below the ceiling leads to a diagnosis trigger; after that trigger the loop
\* stops if the diagnosis says so and otherwise sleeps and retries the same item.
C27_PeriodicDiagnosis ==
  [][\A k \in Threads :
       /\ (total_failures' = total_failures + 1 /\ PeriodicDue(total_failures')
              /\ ~CeilingReached(total_failures'))
            => loops'[k].pc = "perdiag"
       /\ (loops[k].pc = "perdiag" /\ loops'[k].pc # "perdiag")
            => IF diag'.stop
                 THEN ~running' /\ loops'[k].pc = "outer"
                 ELSE /\ running' = running
                      /\ loops'[k].pc = "sleep"
                      /\ loops'[k].video = loops[k].video]_vars

\* C28: in one run of recovery the verification is polled at most 120 times, the
\* begin-broadcast request is sent at most twice and a second time only after a
\* poll reported the identity verified, a poll that finds the run flag cleared ends
\* the run with failure, and a run that timed out or was aborted reports failure.
C28_RecoveryBounded ==
  /\ [](/\ rc.attempts <= MaxAttempts /\ rc.polls <= MaxAttempts
        /\ rc.posts <= 2
        /\ (rc.pc = "post2" \/ rc.posts = 2) => (rc.polls >= 1 /\ rc.why = "")
        /\ rc.why \in {"timeout", "abort"} => (rc.pc = "done" /\ rc.result = "fail"))
  /\ [][(rc.pc = "poll" /\ ~running /\ rc' # rc)
          => (rc'.pc = "done" /\ rc'.result = "fail" /\ rc'.posts = rc.posts)]_vars

\* the verification was polled 120 times without success: recovery has failed
C28_Witness ==
  /\ rc.pc = "done" /\ rc.why = "timeout"
  /\ rc.polls = MaxAttempts /\ rc.posts = 1
  /\ rc.result = "fail"

\* C29: a begin-broadcast answer with code 0, an endpoint and a credential replaces
\* both values in memory and makes recovery report success, whatever happens to
\* config.yaml; any other answer leaves memory and config.yaml as they were, and a
\* code-0 answer lacking either value makes recovery report failure; every encode
\* process is spawned with the values in memory at that moment.
C29_HotSwap ==
  [][/\ (rc.pc \in {"post1", "post2"} /\ rc' # rc)
          => IF rc'.resp.code = "0" /\ rc'.resp.addr # "" /\ rc'.resp.key # ""
               THEN /\ stream_cfg' = [rtmp_url |-> rc'.resp.addr, stream_key |-> rc'.resp.key]
                    /\ rc'.result = "ok"
               ELSE /\ stream_cfg' = stream_cfg
                    /\ config_file' = config_file
                    /\ rc'.resp.code = "0" => rc'.result = "fail"
     /\ \A k \in Threads :
          (loops[k].pc = "spawn" /\ loops'[k].pc = "read") => loops[k].cmd = stream_cfg]_vars

\* after a recovery that could not rewrite config.yaml the command of the next
\* encode process names the new endpoint and the new credential
C29_Witness ==
  \E k \in Threads :
    /\ loops[k].pc = "spawn"
    /\ diag.recovery = "ok"
    /\ loops[k].cmd = [rtmp_url |-> "u2", stream_key |-> "k2"]
    /\ config_file = [rtmp_url |-> "u1", stream_key |-> "k1"]

\* C30: a play request whose index is outside [0, len) is refused (play returns
\* False, jump_to None) and leaves the cursor, the checkpoint, the skip flag, the
\* process and the request state as they were; a request is refused for no other
\* index.
C30_PlayBoundsChecked ==
  [][hist'.jump # hist.jump
       => IF hist'.jump.ret = "absent"
            THEN /\ ~(0 <= hist'.jump.i /\ hist'.jump.i < Len(videos))
                 /\ index' = index
                 /\ progress_file' = progress_file
                 /\ skip_requested' = skip_requested
                 /\ process' = process /\ proc' = proc
                 /\ web' = web
            ELSE 0 <= index' /\ index' < Len(videos)]_vars

\* play(-1) was refused while an item was being encoded
C30_Witness ==
  /\ hist.jump = [i |-> -1, ret |-> "absent"]
  /\ ProcessActive
  /\ ~skip_requested
  /\ index = 1

\* C31: a next() on a non-empty list with the cursor i below the length returns the
\* item at i, moves the cursor to i+1 and writes a checkpoint that names the
\* returned item with position 0; it starts a reload exactly when the new cursor
\* equals the length of the list.
C31_NextAdvances ==
  [][\A k \in Threads :
       (loops[k].pc = "outer" /\ loops'[k].pc = "consume"
          /\ videos # << >> /\ index < Len(videos))
       => /\ loops'[k].video = videos[index + 1]
          /\ index' = index + 1
          /\ videos' = videos
          /\ progress_file' = [index |-> index + 1, video_name |-> videos[index + 1],
                               position |-> 0]
          /\ (\E b \in BgIds : ~ReloadBusy(b) /\ rl'[b].pc = "list")
               <=> (index' = Len(videos))]_vars

\* the last item of a round has just been handed out and the reload started
C31_Witness ==
  /\ loops[1].pc = "consume"
  /\ index = Len(videos)
  /\ loops[1].video = videos[Len(videos)]
  /\ progress_file = [index |-> index, video_name |-> loops[1].video, position |-> 0]
  /\ \E b \in BgIds : rl[b].pc = "list"

C33_NextNeverRaises == \A k \in Threads : loops[k].pc # "crashed"

\* C34: whenever the run flag is set, a supervisor thread exists (it is in start()
\* before or inside the loop): the status never reports running, with start_stream
\* refusing to start, while no thread plays items.
C34_RunningHasLoop ==
  running => \E k \in Threads : loops[k].pc \notin {"none", "crashed"}

\* C35: over the failed attempts of one item the resume offset never decreases: a
\* failed attempt leaves the offset of the next attempt, and the position written
\* to the checkpoint, at or above the offset the attempt was started with.
C35_ResumeNeverDecreases ==
  [][\A k \in Threads :
       (loops[k].pc \in {"wait", "except"} /\ loops'[k].attempt = loops[k].attempt + 1)
       => /\ loops'[k].resume_pos >= loops[k].resume_pos
          /\ progress_file'.position >= loops[k].resume_pos]_vars

\* C36: a checkpoint written with a position names the item that was playing when
\* the position was recorded: the periodic save of _read_output writes the name of
\* the item being encoded, also after a reload or a jump_to has moved the cursor.
C36_PositionNamesPlaying ==
  [][\A k \in Threads :
       (loops[k].pc = "read" /\ loops'[k].pc = "read" /\ current_time' # current_time
          /\ progress_file' # progress_file)
       => progress_file'.video_name = loops[k].video]_vars

\* C37: when the loop observes the exit of a process that stop() terminated, it
\* does not count a failure (cumulative or per item), does not start a diagnosis
\* and does not sleep a backoff delay before it leaves.
C37_StopExitNotFailure ==
  [][\A k \in Threads :
       (loops[k].pc = "wait" /\ loops'[k].pc # "wait" /\ proc[loops[k].rp] = "term_stop")
       => /\ total_failures' = total_failures
          /\ loops'[k].video_retry = loops[k].video_retry
          /\ loops'[k].pc \notin {"sleep", "maxdiag", "perdiag"}]_vars

\* C38: once switch_path(p) has returned and no reload is in progress, the list
\* holds the items listed from p: a reload started before the switch does not
\* overwrite the list with the items of the old directory.
C38_SwitchWins ==
  (web.pc # "sw_reload" /\ \A r \in Runners : ~ReloadBusy(r)) => videos = Listing(path)

\* C39: a skip() called while no encode process is active (nothing spawned yet, the
\* loop sleeping, the last process ended) changes nothing: the skip flag, the
\* cursor, the counters, the processes and the item being retried stay as they are,
\* and the request does not go on to set the flag or terminate anything.
C39_IdleSkipNoop ==
  [][/\ (~hist.skip_idle /\ hist'.skip_idle)
          => /\ skip_requested' = skip_requested /\ index' = index
             /\ total_failures' = total_failures /\ videos_played' = videos_played
             /\ proc' = proc /\ loops' = loops /\ progress_file' = progress_file
             /\ web' = web
     /\ (web.pc = "idle" /\ ~Alive(process)) => ~(web'.pc = "set" /\ web'.op = "skip")]_vars

\* a skip request arrived while the loop was sleeping its backoff delay
C39_Witness ==
  /\ hist.skip_idle
  /\ loops[1].pc = "sleep"
  /\ ~skip_requested
  /\ web.pc = "idle"
  /\ \A p \in ProcIds : proc[p] # "running"

\* C40: the two locks cannot deadlock: a thread that holds the playlist lock never
\* goes on to take the supervisor lock (nesting is supervisor lock, then playlist
\* lock), no thread takes a lock it already holds, and no two threads wait for
\* each other.
C40_LockOrder ==
  /\ \A a \in LockThreads :
        (~Done(a) /\ Instr(a).k = "acq")
          => /\ lk[Instr(a).x] # a
             /\ lk.P = a => Instr(a).x # "S"
  /\ \A a, b \in LockThreads : ~(WaitsFor(a, b) /\ WaitsFor(b, a))

\* the status request holds both locks, nested, while the loop waits for the
\* playlist lock
C40_Witness ==
  /\ lk.S = "web1" /\ lk.P = "web1"
  /\ WaitsFor("loop", "web1")

====
